---- MODULE Spec2Model ----
(***************************************************************************)
(* Model of script.ts: the extractor (readExcelFile, isValidChannelFormat), *)
(* the synchronizer (uploadData), the reporter (fetchData) and main.       *)
(*                                                                         *)
(* One run of the process is main(): extract, synchronize, report,         *)
(* release.  The store is persistent and outlives a run; the console (log) *)
(* belongs to one run.  A run is entered either through readExcelFile as   *)
(* written (entry = "main") or with the extractor's result left open       *)
(* (entry = "open": uploadData is handed an arbitrary record sequence, the *)
(* way its signature allows).  Every behaviour of main as written is a     *)
(* behaviour with entry = "main".                                          *)
(***************************************************************************)
EXTENDS Integers, Sequences, FiniteSets, TLC

\* ------------------------------------------------------------- bounds
MaxRows == 2        \* rows scanned in one worksheet
MaxLabelLen == 3    \* characters of a channel cell's string
MaxLen == 3         \* records handed to uploadData when the entry is open
MaxRuns == 2        \* runs of the process against the same store

\* ------------------------------------------------------- value domains
Alef == "א"
\* a finite decimal m / 10^e, e the number of fraction digits (no trailing zero
\* arises: FrequencyTexts holds no "0")
Dec(m, e) == [m |-> m, e |-> e]
\* parseFloat's not-a-number
NaN == [m |-> 0, e |-> -1]
\* findFirst's "no record": the result is a sequence of at most one row
null == <<>>

\* characters a channel cell's string is drawn from
LabelChars == {Alef, "7", " ", "b"}
\* texts of a frequency cell: empty, numeric, numeric with a tail, non-numeric
FrequencyTexts ==
    {<<>>, <<"1">>, <<"1", ".", "5">>, <<".", "5">>, <<"1", "x">>, <<"x">>, <<".">>}

RECURSIVE SeqsUpTo(_, _)
SeqsUpTo(S, n) ==
    IF n = 0 THEN {<<>>}
    ELSE LET shorter == SeqsUpTo(S, n - 1)
         IN  shorter \cup {Append(s, c) : s \in {t \in shorter : Len(t) = n - 1}, c \in S}

\* row.getCell(1).value: a string, or a value of another type (number, null, ...)
ChannelCellValues ==
    {[type |-> "string", s |-> s] : s \in SeqsUpTo(LabelChars, MaxLabelLen)}
        \cup {[type |-> "number", s |-> <<>>]}

\* row.getCell(2): its ValueType (Null or not) and its text
FrequencyCells ==
    {[type |-> "Other", text |-> t] : t \in FrequencyTexts}
        \cup {[type |-> "Null", text |-> <<>>]}

Rows == [c1 : ChannelCellValues, c2 : FrequencyCells]

Channels == {7, 9}
Freqs == {Dec(1015, 1), Dec(102, 0)}
\* interface ExcelDataRow
ExcelDataRow == [channel : Channels, frequency : Freqs]

\* ------------------------------------------------------ pure functions
DigitValue(c) == CASE c = "1" -> 1 [] c = "5" -> 5 [] c = "7" -> 7 [] OTHER -> 0
IsDigit(c) == c \in {"1", "5", "7"}

\* isNaN(Number(ch)) of a one-character string: a digit converts to its value, a
\* space to 0; every other character of the model's alphabets to NaN
IsNaNNumberOfChar(c) == ~(IsDigit(c) \/ c = " ")

RECURSIVE isValidChannelFormatFrom(_, _, _)
isValidChannelFormatFrom(input, i, foundAleph) ==
    IF i > Len(input) THEN FALSE
    ELSE IF input[i] = Alef THEN isValidChannelFormatFrom(input, i + 1, TRUE)
    ELSE IF foundAleph
         THEN IF input[i] = " " \/ ~IsNaNNumberOfChar(input[i]) THEN FALSE ELSE FALSE
    ELSE isValidChannelFormatFrom(input, i + 1, foundAleph)

\* the format the comments name: the marker, then one or more digits, nothing else
isValidChannelFormatDigits(input) ==
    /\ Len(input) >= 2
    /\ input[1] = Alef
    /\ \A k \in 2..Len(input) : IsDigit(input[k])

isValidChannelFormat(input) == isValidChannelFormatFrom(input, 1, FALSE)

startsWith(s, c) == Len(s) >= 1 /\ s[1] = c

\* s.indexOf(c), 0-based, -1 when absent
indexOf(s, c) ==
    IF \E k \in 1..Len(s) : s[k] = c
    THEN (CHOOSE k \in 1..Len(s) : s[k] = c /\ \A j \in 1..(k - 1) : s[j] # c) - 1
    ELSE -1

\* s.substring(from), from 0-based
substring(s, from) == IF from >= Len(s) THEN <<>> ELSE SubSeq(s, from + 1, Len(s))

RECURSIVE SkipSpaces(_)
SkipSpaces(s) == IF s # <<>> /\ s[1] = " " THEN SkipSpaces(Tail(s)) ELSE s

RECURSIVE DigitPrefix(_)
DigitPrefix(s) == IF s # <<>> /\ IsDigit(s[1]) THEN <<s[1]>> \o DigitPrefix(Tail(s)) ELSE <<>>

RECURSIVE DigitsValue(_)
DigitsValue(ds) ==
    IF ds = <<>> THEN 0
    ELSE 10 * DigitsValue(SubSeq(ds, 1, Len(ds) - 1)) + DigitValue(ds[Len(ds)])

\* parseInt(s): leading white space skipped, then the longest run of digits; NaN
\* (written -1 among the integers: no digit string parses to a negative) when
\* there is none
parseInt(s) ==
    LET ds == DigitPrefix(SkipSpaces(s))
    IN  IF ds = <<>> THEN -1 ELSE DigitsValue(ds)

\* parseFloat(s): leading white space skipped, then the longest prefix
\* digits [. digits] or . digits; NaN when there is none
parseFloat(s) ==
    LET t == SkipSpaces(s)
        ip == DigitPrefix(t)
        rest == SubSeq(t, Len(ip) + 1, Len(t))
        fp == IF rest # <<>> /\ rest[1] = "." THEN DigitPrefix(Tail(rest)) ELSE <<>>
    IN  IF ip = <<>> /\ fp = <<>> THEN NaN
        ELSE Dec(DigitsValue(ip \o fp), Len(fp))

isNaN(v) == v = NaN
isInteger(v) == v # NaN /\ v.e = 0

\* ------------------------------------------------------------- the store
\* a lookup that never finds the row
findFirstNone(s, channel) == <<>>

\* prisma.excelData: the table's rows in creation order
findFirst(s, channel) ==
    IF \E k \in 1..Len(s) : s[k].channel = channel
    THEN <<s[CHOOSE k \in 1..Len(s) :
                 s[k].channel = channel /\ \A j \in 1..(k - 1) : s[j].channel # channel]>>
    ELSE null

\* an update that leaves the stored frequency as it was
updateKeepsFrequency(s, channel, frequency) == s

\* an update that writes a further row for the channel
updateInserts(s, channel, frequency) ==
    Append(s, [channel |-> channel, frequency |-> frequency])

\* an update whose where clause is lost: every row gets the frequency
updateEveryRow(s, channel, frequency) ==
    [k \in 1..Len(s) |-> [s[k] EXCEPT !.frequency = frequency]]

\* update({where: {channel}, data: {frequency}})
update(s, channel, frequency) ==
    [k \in 1..Len(s) |->
        IF s[k].channel = channel THEN [s[k] EXCEPT !.frequency = frequency] ELSE s[k]]

\* create({data: {channel, frequency}})
create(s, channel, frequency) == Append(s, [channel |-> channel, frequency |-> frequency])

findMany(s) == s

ChannelsOf(s) == {s[k].channel : k \in 1..Len(s)}
UniqueChannels(s) == \A j, k \in 1..Len(s) : s[j].channel = s[k].channel => j = k

\* the stores a run may find: at most one row per channel
InitialStores == {s \in SeqsUpTo(ExcelDataRow, Cardinality(Channels)) : UniqueChannels(s)}

\* -------------------------------------------------------------- state
VARIABLES
    pc,             \* where the run stands
    entry,          \* "main": readExcelFile as written; "open": its result left open
    runs,           \* runs of the process started so far
    repeat,         \* this run hands uploadData the sequence of the run before it
    rowNumber,      \* rows of the worksheet scanned so far
    row,            \* the row last handed to eachRow's callback (SpecExtract only)
    excelData,      \* readExcelFile's array, then uploadData's argument
    i,              \* uploadData: index of the record the loop stands at
    existingRecord, \* uploadData: findFirst's result for record i
    uploadOK,       \* uploadData ended without a store failure in this run
    failedAt,       \* the record at which a store operation of uploadData threw (0: none)
    store,          \* prisma.excelData
    store0,         \* the store as uploadData found it in this run
    data,           \* fetchData: findMany's result, as logged
    log,            \* the console of this run
    dbOps,          \* the store operations issued in this run, in order
    stages          \* the stages entered in this run, in order

vars == <<pc, entry, runs, repeat, rowNumber, row, excelData, i, existingRecord,
          uploadOK, failedAt, store, store0, data, log, dbOps, stages>>

noRow == [c1 |-> [type |-> "number", s |-> <<>>], c2 |-> [type |-> "Null", text |-> <<>>]]

Msg(m, n) == [msg |-> m, row |-> n]
Op(o, k) == [op |-> o, rec |-> k]

\* the state main is in once `new PrismaClient()` has returned
Start(s, n) ==
    /\ pc = "main"
    /\ entry = "main"
    /\ runs = n
    /\ repeat = FALSE
    /\ rowNumber = 0
    /\ row = noRow
    /\ excelData = <<>>
    /\ i = 1
    /\ existingRecord = null
    /\ uploadOK = FALSE
    /\ failedAt = 0
    /\ store = s
    /\ store0 = s
    /\ data = <<>>
    /\ log = <<>>
    /\ dbOps = <<>>
    /\ stages = <<>>

Init == \E s \in InitialStores : Start(s, 1)

\* ---------------------------------------------------------- readExcelFile
\* what readExcelFile leaves alone
ExtractFrame == UNCHANGED <<entry, runs, repeat, i, existingRecord, uploadOK, failedAt,
                            store, store0, data, dbOps>>

\* the callback with the `return` of the invalid-channel branch left out: the row
\* falls through to the frequency checks
rowCallbackNoReturn(r) ==
    LET v == r.c1
        bad == \/ v.type # "string"
               \/ ~startsWith(v.s, Alef)
               \/ indexOf(v.s, Alef) = -1
               \/ ~isValidChannelFormat(v.s)
        channel == IF v.type = "string"
                   THEN parseInt(substring(v.s, indexOf(v.s, Alef) + 1)) ELSE -1
        l1 == IF bad THEN Append(log, Msg("Invalid channel value", rowNumber + 1)) ELSE log
        frequency == parseFloat(r.c2.text)
    IN  /\ rowNumber' = rowNumber + 1
        /\ IF r.c2.type # "Null"
           THEN IF ~isNaN(frequency)
                THEN /\ excelData' = Append(excelData,
                                            [channel |-> channel, frequency |-> frequency])
                     /\ log' = l1
                ELSE /\ log' = Append(l1, Msg("Invalid frequency value", rowNumber + 1))
                     /\ excelData' = excelData
           ELSE /\ log' = Append(l1, Msg("Empty frequency cell", rowNumber + 1))
                /\ excelData' = excelData

\* worksheet.eachRow's callback on row r, whose number is rowNumber + 1
rowCallback(r) ==
    LET channelCellValue == r.c1
    IN  /\ rowNumber' = rowNumber + 1
        /\ IF \/ channelCellValue.type # "string"
              \/ ~startsWith(channelCellValue.s, Alef)
              \/ indexOf(channelCellValue.s, Alef) = -1
              \/ ~isValidChannelFormat(channelCellValue.s)
           THEN /\ log' = Append(log, Msg("Invalid channel value", rowNumber + 1))
                /\ excelData' = excelData
           ELSE LET indexOfAlef == indexOf(channelCellValue.s, Alef)
                    channel == parseInt(substring(channelCellValue.s, indexOfAlef + 1))
                    frequencyCell == r.c2
                    frequency == parseFloat(frequencyCell.text)
                IN  IF frequencyCell.type # "Null"
                    THEN IF ~isNaN(frequency) /\ (isInteger(frequency) \/ ~isNaN(frequency))
                         THEN /\ excelData' = Append(excelData,
                                       [channel |-> channel, frequency |-> frequency])
                              /\ log' = log
                         ELSE /\ log' = Append(log,
                                       Msg("Invalid frequency value", rowNumber + 1))
                              /\ excelData' = excelData
                    ELSE /\ log' = Append(log, Msg("Empty frequency cell", rowNumber + 1))
                         /\ excelData' = excelData

\* the catch of readExcelFile passing the error on to its caller: main's catch
\* logs it and the run goes to the finally block
readFileRethrows ==
    /\ pc = "main"
    /\ pc' = "finally"
    /\ stages' = Append(stages, "extract")
    /\ log' = Append(log, Msg("Error:", 0))
    /\ UNCHANGED <<rowNumber, row, excelData>>
    /\ ExtractFrame

\* workbook.xlsx.readFile throws (missing or unreadable file): caught, logged, []
readFileThrows ==
    /\ pc = "main"
    /\ pc' = "uploadData"
    /\ stages' = Append(stages, "extract")
    /\ log' = Append(log, Msg("Error reading the Excel file:", 0))
    /\ excelData' = <<>>
    /\ UNCHANGED <<rowNumber, row>>
    /\ ExtractFrame

\* getWorksheet(1) is undefined: logged, []
worksheetUndefined ==
    /\ pc = "main"
    /\ pc' = "uploadData"
    /\ stages' = Append(stages, "extract")
    /\ log' = Append(log, Msg("Error: Worksheet is undefined.", 0))
    /\ excelData' = <<>>
    /\ UNCHANGED <<rowNumber, row>>
    /\ ExtractFrame

\* the file is read and has a first worksheet: excelData = []
worksheetFound ==
    /\ pc = "main"
    /\ pc' = "eachRow"
    /\ stages' = Append(stages, "extract")
    /\ excelData' = <<>>
    /\ rowNumber' = 0
    /\ UNCHANGED <<row, log>>
    /\ ExtractFrame

\* one row of the worksheet goes through the callback
eachRow ==
    /\ pc = "eachRow"
    /\ rowNumber < MaxRows
    /\ \E r \in Rows : rowCallback(r)
    /\ UNCHANGED <<pc, row, stages>>
    /\ ExtractFrame

\* the same step, the row kept for the claims about single rows
eachRowObserved ==
    /\ pc = "eachRow"
    /\ rowNumber < MaxRows
    /\ \E r \in Rows : rowCallback(r) /\ row' = r
    /\ UNCHANGED <<pc, stages>>
    /\ ExtractFrame

\* the worksheet has no further row: return excelData
readExcelFileReturn ==
    /\ pc = "eachRow"
    /\ pc' = "uploadData"
    /\ UNCHANGED <<rowNumber, row, excelData, log, stages>>
    /\ ExtractFrame

\* the extractor's result left open: uploadData is handed any record sequence
readExcelFileOpen ==
    /\ pc = "main"
    /\ pc' = "uploadData"
    /\ entry' = "open"
    /\ stages' = Append(stages, "extract")
    /\ \E S \in SeqsUpTo(ExcelDataRow, MaxLen) : excelData' = S
    /\ UNCHANGED <<runs, repeat, rowNumber, row, i, existingRecord, uploadOK, failedAt,
                   store, store0, data, log, dbOps>>

\* ------------------------------------------------------------- uploadData
\* what uploadData leaves alone
UploadFrame == UNCHANGED <<entry, runs, repeat, rowNumber, row, excelData, data, stages>>

\* main calls uploadData(prisma, excelData): the loop starts at the first record
uploadDataCall ==
    /\ pc = "uploadData"
    /\ pc' = "for"
    /\ i' = 1
    /\ existingRecord' = null
    /\ uploadOK' = FALSE
    /\ failedAt' = 0
    /\ store0' = store
    /\ stages' = Append(stages, "synchronize")
    /\ UNCHANGED <<entry, runs, repeat, rowNumber, row, excelData, store, data, log, dbOps>>

\* a try/catch around one record instead of the loop: the failure is logged and
\* the loop goes on with the next record
uploadCatchPerRecord ==
    /\ log' = Append(log, Msg("Error updating data:", 0))
    /\ pc' = "for"
    /\ i' = i + 1
    /\ existingRecord' = null
    /\ uploadOK' = FALSE

\* the catch passing the error on to main, whose catch logs it: fetchData is
\* skipped and the run goes to the finally block
uploadCatchRethrows ==
    /\ log' = Append(log, Msg("Error:", 0))
    /\ pc' = "finally"
    /\ i' = i
    /\ existingRecord' = null
    /\ uploadOK' = FALSE

\* a store operation of uploadData throws: the catch logs it and uploadData
\* returns; the loop is left at record i
uploadCatch ==
    /\ log' = Append(log, Msg("Error updating data:", 0))
    /\ pc' = "fetchData"
    /\ i' = i
    /\ existingRecord' = null
    /\ uploadOK' = FALSE

\* await prisma.excelData.findFirst({where: {channel}}) for record i
findFirstStep ==
    /\ pc = "for"
    /\ i <= Len(excelData)
    /\ dbOps' = Append(dbOps, Op("findFirst", i))
    /\ \E ok \in BOOLEAN :
          IF ok
          THEN /\ existingRecord' = findFirst(store, excelData[i].channel)
               /\ pc' = "if"
               /\ UNCHANGED <<i, uploadOK, failedAt, log>>
          ELSE uploadCatch /\ failedAt' = i
    /\ UNCHANGED <<store, store0>>
    /\ UploadFrame

\* existingRecord is set: await prisma.excelData.update(...)
updateStep ==
    /\ pc = "if"
    /\ existingRecord # null
    /\ dbOps' = Append(dbOps, Op("update", i))
    /\ \E ok \in BOOLEAN :
          IF ok
          THEN /\ store' = update(store, excelData[i].channel, excelData[i].frequency)
               /\ pc' = "for"
               /\ i' = i + 1
               /\ existingRecord' = null
               /\ UNCHANGED <<uploadOK, failedAt, log>>
          ELSE uploadCatch /\ failedAt' = i /\ store' = store
    /\ UNCHANGED store0
    /\ UploadFrame

\* existingRecord is null: await prisma.excelData.create(...)
createStep ==
    /\ pc = "if"
    /\ existingRecord = null
    /\ dbOps' = Append(dbOps, Op("create", i))
    /\ \E ok \in BOOLEAN :
          IF ok
          THEN /\ store' = create(store, excelData[i].channel, excelData[i].frequency)
               /\ pc' = "for"
               /\ i' = i + 1
               /\ existingRecord' = null
               /\ UNCHANGED <<uploadOK, failedAt, log>>
          ELSE uploadCatch /\ failedAt' = i /\ store' = store
    /\ UNCHANGED store0
    /\ UploadFrame

\* the loop is over: the success message, and uploadData returns
uploadDataDone ==
    /\ pc = "for"
    /\ i > Len(excelData)
    /\ log' = Append(log, Msg("Data uploaded to the database.", 0))
    /\ pc' = "fetchData"
    /\ uploadOK' = TRUE
    /\ UNCHANGED <<i, existingRecord, failedAt, store, store0, dbOps>>
    /\ UploadFrame

\* -------------------------------------------------------------- fetchData
\* await prisma.excelData.findMany(): the rows are logged, or the failure is
fetchData ==
    /\ pc = "fetchData"
    /\ pc' = "completed"
    /\ stages' = Append(stages, "report")
    /\ dbOps' = Append(dbOps, Op("findMany", 0))
    /\ \E ok \in BOOLEAN :
          IF ok
          THEN /\ data' = findMany(store)
               /\ log' = Append(log, Msg("Fetched Data:", 0))
          ELSE /\ data' = data
               /\ log' = Append(log, Msg("Error fetching data:", 0))
    /\ UNCHANGED <<entry, runs, repeat, rowNumber, row, excelData, i, existingRecord,
                   uploadOK, failedAt, store, store0>>

\* ------------------------------------------------------------------- main
\* console.log('The program successfully completed.')
logCompleted ==
    /\ pc = "completed"
    /\ pc' = "finally"
    /\ log' = Append(log, Msg("The program successfully completed.", 0))
    /\ UNCHANGED <<entry, runs, repeat, rowNumber, row, excelData, i, existingRecord,
                   uploadOK, failedAt, store, store0, data, dbOps, stages>>

\* the finally block ends the run without releasing the connection
disconnectForgotten ==
    /\ pc = "finally"
    /\ pc' = "done"
    /\ UNCHANGED <<entry, runs, repeat, rowNumber, row, excelData, i, existingRecord,
                   uploadOK, failedAt, store, store0, data, log, dbOps, stages>>

\* finally: await prisma.$disconnect()
disconnect ==
    /\ pc = "finally"
    /\ pc' = "done"
    /\ dbOps' = Append(dbOps, Op("$disconnect", 0))
    /\ stages' = Append(stages, "release")
    /\ UNCHANGED <<entry, runs, repeat, rowNumber, row, excelData, i, existingRecord,
                   uploadOK, failedAt, store, store0, data, log>>

\* the process is started again: main() on the store the last run left
rerun ==
    /\ pc = "done"
    /\ runs < MaxRuns
    /\ pc' = "main"
    /\ entry' = "main"
    /\ runs' = runs + 1
    /\ repeat' = FALSE
    /\ rowNumber' = 0
    /\ excelData' = <<>>
    /\ i' = 1
    /\ existingRecord' = null
    /\ uploadOK' = FALSE
    /\ failedAt' = 0
    /\ store0' = store
    /\ data' = <<>>
    /\ log' = <<>>
    /\ dbOps' = <<>>
    /\ stages' = <<>>
    /\ UNCHANGED <<row, store>>

\* the process is started again and its extractor yields the sequence of the run
\* before, whose uploadData met no store failure
rerunSame ==
    /\ pc = "done"
    /\ runs < MaxRuns
    /\ entry = "open"
    /\ uploadOK
    /\ pc' = "uploadData"
    /\ runs' = runs + 1
    /\ repeat' = TRUE
    /\ rowNumber' = 0
    /\ i' = 1
    /\ existingRecord' = null
    /\ uploadOK' = FALSE
    /\ failedAt' = 0
    /\ store0' = store
    /\ data' = <<>>
    /\ log' = <<>>
    /\ dbOps' = <<>>
    /\ stages' = <<"extract">>
    /\ UNCHANGED <<entry, row, excelData, store>>

Next ==
    \/ readFileThrows
    \/ worksheetUndefined
    \/ worksheetFound
    \/ eachRow
    \/ readExcelFileReturn
    \/ readExcelFileOpen
    \/ uploadDataCall
    \/ findFirstStep
    \/ updateStep
    \/ createStep
    \/ uploadDataDone
    \/ fetchData
    \/ logCompleted
    \/ disconnect
    \/ rerun
    \/ rerunSame

Spec == Init /\ [][Next]_vars

\* the steps of one run
RunStep ==
    \/ readFileThrows \/ worksheetUndefined \/ worksheetFound \/ eachRow
    \/ readExcelFileReturn \/ readExcelFileOpen \/ uploadDataCall \/ findFirstStep
    \/ updateStep \/ createStep \/ uploadDataDone \/ fetchData \/ logCompleted
    \/ disconnect

\* every await settles (the file read and each store operation resolve or
\* reject), and the event loop then runs the continuation: a run that can take
\* a step takes one
SpecFair == Spec /\ WF_vars(RunStep)

\* readExcelFile alone, on every worksheet of at most MaxRows rows
InitExtract == Start(<<>>, 1)

NextExtract ==
    \/ readFileThrows
    \/ worksheetUndefined
    \/ worksheetFound
    \/ eachRowObserved
    \/ readExcelFileReturn

SpecExtract == InitExtract /\ [][NextExtract]_vars

\* ------------------------------------------------------------ properties
Logged(m) == \E k \in 1..Len(log) : log[k].msg = m
CountLogged(m) == Cardinality({k \in 1..Len(log) : log[k].msg = m})
OpsOf(o) == {k \in 1..Len(dbOps) : dbOps[k].op = o}
UploadOps == {"findFirst", "update", "create"}
AfterUpload == {"fetchData", "completed", "finally", "done"}
SeqChannels(S) == {S[k].channel : k \in 1..Len(S)}
RowsOf(s, c) == {k \in 1..Len(s) : s[k].channel = c}

\* the frequency of the last record of S whose channel is c
LastFreq(S, c) ==
    S[CHOOSE k \in 1..Len(S) :
          S[k].channel = c /\ \A j \in (k + 1)..Len(S) : S[j].channel # c].frequency

\* the records of P that open a channel neither s0 nor an earlier record holds
RECURSIVE FirstOfNew(_, _, _)
FirstOfNew(P, seen, k) ==
    IF k > Len(P) THEN <<>>
    ELSE IF P[k].channel \in seen THEN FirstOfNew(P, seen, k + 1)
    ELSE <<P[k].channel>> \o FirstOfNew(P, seen \cup {P[k].channel}, k + 1)

\* what a sync of P without store failure makes of s0: every row of s0 whose
\* channel occurs in P carries P's last frequency for it, and the channels new to
\* s0 follow in the order P first names them
Expected(s0, P) ==
    LET kept == [k \in 1..Len(s0) |->
                    IF s0[k].channel \in SeqChannels(P)
                    THEN [s0[k] EXCEPT !.frequency = LastFreq(P, s0[k].channel)]
                    ELSE s0[k]]
        new == FirstOfNew(P, ChannelsOf(s0), 1)
    IN  kept \o [k \in 1..Len(new) |-> [channel |-> new[k], frequency |-> LastFreq(P, new[k])]]

\* C1: the store holds at most one row per channel in every state of every run
\* (runs that completed and runs a store failure aborted alike), and the rows the
\* reporter logged are exactly one per channel of the store.
C1_OneRowPerChannel ==
    /\ \A c \in Channels : Cardinality(RowsOf(store, c)) <= 1
    /\ Logged("Fetched Data:") =>
          /\ SeqChannels(data) = SeqChannels(store)
          /\ \A c \in SeqChannels(store) : Cardinality(RowsOf(data, c)) = 1
          /\ Len(data) = Cardinality(SeqChannels(store))

\* a second run that a store failure aborted after it had written, reported
C1_Witness ==
    /\ runs = 2
    /\ pc = "done"
    /\ ~uploadOK
    /\ store # store0
    /\ Logged("Fetched Data:")
    /\ Len(data) = 2

\* C2: when uploadData runs again with the sequence of the failure-free run
\* before it and meets no failure either, it leaves the store as it found it,
\* issues no create, and every channel of the sequence has exactly one row, with
\* the frequency of the sequence's last record for it.
C2_Idempotent ==
    (repeat /\ uploadOK /\ pc \in AfterUpload) =>
        /\ store = store0
        /\ OpsOf("create") = {}
        /\ Cardinality(OpsOf("update")) = Len(excelData)
        /\ \A c \in SeqChannels(excelData) :
              /\ Cardinality(RowsOf(store, c)) = 1
              /\ \A k \in RowsOf(store, c) : store[k].frequency = LastFreq(excelData, c)

\* the repeated sequence names one channel twice, with two frequencies
C2_Witness ==
    /\ repeat
    /\ uploadOK
    /\ pc = "done"
    /\ Len(excelData) = 2
    /\ excelData[1].channel = excelData[2].channel
    /\ excelData[1].frequency # excelData[2].frequency

\* C3: every record is looked up by its channel, then updated when a row was
\* found and created otherwise; after a failure-free uploadData every channel of
\* the sequence has exactly one row, carrying the frequency of the last record of
\* the sequence with that channel.
C3_LastRecordWins ==
    (uploadOK /\ pc \in AfterUpload) =>
        /\ \A c \in SeqChannels(excelData) :
              /\ Cardinality(RowsOf(store, c)) = 1
              /\ \A k \in RowsOf(store, c) : store[k].frequency = LastFreq(excelData, c)
        /\ \A k \in 1..Len(excelData) :
              /\ dbOps[2 * k - 1] = Op("findFirst", k)
              /\ dbOps[2 * k] =
                    IF excelData[k].channel \in
                           ChannelsOf(store0) \cup SeqChannels(SubSeq(excelData, 1, k - 1))
                    THEN Op("update", k) ELSE Op("create", k)

\* records (7, 101.5), (7, 102.0) on the empty store leave {7, 102.0}
C3_Witness ==
    /\ uploadOK
    /\ pc = "fetchData"
    /\ store0 = <<>>
    /\ excelData = <<[channel |-> 7, frequency |-> Dec(1015, 1)],
                     [channel |-> 7, frequency |-> Dec(102, 0)]>>
    /\ store = <<[channel |-> 7, frequency |-> Dec(102, 0)]>>

\* uploadData left its loop on a store failure in this run
UploadFailed == failedAt # 0

\* C5: after a store failure at record i the failure is logged once, the failing
\* operation is the last one uploadData issued (none for a later record), and the
\* store is what a failure-free sync of the first i - 1 records makes of the
\* store uploadData found.
C5_FailureKeepsPrefix ==
    UploadFailed =>
        /\ pc \in AfterUpload
        /\ i = failedAt
        /\ ~uploadOK
        /\ CountLogged("Error updating data:") = 1
        /\ ~Logged("Data uploaded to the database.")
        /\ i \in 1..Len(excelData)
        /\ \A k \in 1..Len(dbOps) : dbOps[k].op \in UploadOps => dbOps[k].rec <= i
        /\ \E k \in 1..Len(dbOps) :
              /\ dbOps[k].op \in UploadOps
              /\ dbOps[k].rec = i
              /\ \A j \in (k + 1)..Len(dbOps) : dbOps[j].op \notin UploadOps
        /\ store = Expected(store0, SubSeq(excelData, 1, i - 1))

\* the second record's create failed after the first record had been written
C5_Witness ==
    /\ UploadFailed
    /\ pc = "done"
    /\ i = 2
    /\ store # store0
    /\ dbOps[Len(dbOps) - 2] = Op("create", 2)

\* the channel label the comments ask for: the marker, then digits only
MarkerThenDigits(v) ==
    /\ v.type = "string"
    /\ Len(v.s) >= 2
    /\ v.s[1] = Alef
    /\ \A k \in 2..Len(v.s) : v.s[k] \in {"1", "5", "7"}

\* the first cell holds the marker with some character behind it
MarkerThenAny(v) ==
    /\ v.type = "string"
    /\ \E k \in 1..(Len(v.s) - 1) : v.s[k] = Alef

ErrorMsgs == {"Invalid channel value", "Invalid frequency value", "Empty frequency cell"}

\* C9: a row with a malformed label, a Null frequency cell or a frequency text
\* that parses to NaN leaves the array as it was and logs exactly one error,
\* naming the row's number, and the scan goes on; a row that is appended logs
\* nothing and goes to the end of the array.
C9_RowErrorsSkipOneRow ==
    [][rowNumber' # rowNumber =>
          /\ rowNumber' = rowNumber + 1
          /\ pc' = "eachRow"
          /\ \/ /\ excelData' = excelData
                /\ \E m \in ErrorMsgs : log' = Append(log, Msg(m, rowNumber'))
             \/ /\ ~(\/ ~MarkerThenDigits(row'.c1)
                     \/ row'.c2.type = "Null"
                     \/ isNaN(parseFloat(row'.c2.text)))
                /\ log' = log
                /\ Len(excelData') = Len(excelData) + 1
                /\ SubSeq(excelData', 1, Len(excelData)) = excelData
      ]_vars

\* the second row has the marker and a digit but a Null frequency cell: one
\* error each for rows 1 and 2, nothing accepted
C9_Witness ==
    /\ pc = "eachRow"
    /\ rowNumber = 2
    /\ MarkerThenDigits(row.c1)
    /\ row.c2.type = "Null"
    /\ Len(log) = 2
    /\ log[1].row = 1
    /\ log[2].row = 2
    /\ excelData = <<>>

Disconnects == OpsOf("$disconnect")
AllStages == <<"extract", "synchronize", "report", "release">>

\* C6: the connection is released exactly once in a run, as the run's last store
\* operation (after every operation of uploadData and fetchData, none after it),
\* and the stages are entered in the order extract, synchronize, report, release.
C6_ReleasedOnceAtEnd ==
    /\ pc # "done" => Disconnects = {}
    /\ pc = "done" => Disconnects = {Len(dbOps)} /\ stages = AllStages
    /\ Len(stages) <= 4
    /\ stages = SubSeq(AllStages, 1, Len(stages))
    /\ Cardinality(OpsOf("findMany")) <= 1
    /\ \A j, k \in 1..Len(dbOps) :
          (j < k /\ dbOps[j].op = "findMany") => dbOps[k].op = "$disconnect"

\* main as written: the file could not be read, findMany failed, the connection
\* was released
C6_Witness ==
    /\ entry = "main"
    /\ pc = "done"
    /\ Logged("Error reading the Excel file:")
    /\ Logged("Error fetching data:")
    /\ dbOps = <<Op("findMany", 0), Op("$disconnect", 0)>>

\* C7: when a store operation of uploadData fails, the next thing the run does is
\* fetchData's findMany; a run that is past fetchData has entered the report
\* stage; a findMany that fails is logged and the store is what it was.
C7_ReportAfterSyncFailure ==
    [][/\ (pc \in {"for", "if"} /\ pc' \notin {"for", "if"}) => pc' = "fetchData"
       /\ pc = "fetchData" =>
             /\ store' = store
             /\ dbOps' = Append(dbOps, Op("findMany", 0))
             /\ \/ log' = Append(log, Msg("Fetched Data:", 0)) /\ data' = store
                \/ log' = Append(log, Msg("Error fetching data:", 0)) /\ data' = data
       /\ (UploadFailed /\ pc \in {"completed", "finally", "done"})' =>
             (OpsOf("findMany") # {} /\ Logged("Error updating data:"))'
      ]_vars

\* uploadData failed after a write, then findMany failed too
C7_Witness ==
    /\ UploadFailed
    /\ pc = "done"
    /\ store # store0
    /\ Logged("Error updating data:")
    /\ Logged("Error fetching data:")

\* what C8 says of every state of a run
C8_State ==
    /\ ~Logged("Error:")
    /\ (Logged("Error reading the Excel file:") \/ Logged("Error: Worksheet is undefined.")) =>
          /\ excelData = <<>>
          /\ pc \in {"uploadData", "for"} \cup AfterUpload
    /\ UploadFailed => Logged("Error updating data:")
    /\ pc # "done" => ENABLED RunStep
    /\ pc = "done" =>
          /\ stages = AllStages
          /\ Logged("The program successfully completed.")
          /\ dbOps[Len(dbOps)] = Op("$disconnect", 0)

\* C8: no failure reaches main's catch: a failed extraction leaves an empty
\* array and the run goes on to uploadData, a failed uploadData or fetchData
\* logs its own message; a run that has not ended can always take a step, every
\* run ends, and a run that has ended went through all four stages, finally
\* block included.
C8_EveryRunEndsNormally == []C8_State /\ (pc # "done" ~> pc = "done")

\* main as written: no worksheet, findMany failed, the run ended
C8_Witness ==
    /\ entry = "main"
    /\ pc = "done"
    /\ Logged("Error: Worksheet is undefined.")
    /\ Logged("Error fetching data:")
    /\ log[Len(log)] = Msg("The program successfully completed.", 0)

\* C10: no step takes a channel out of the store, fetchData leaves the store as
\* it is, and every row uploadData found whose channel is not in its sequence is
\* still in its place with its frequency.
C10_NothingDeleted ==
    [][/\ ChannelsOf(store) \subseteq ChannelsOf(store')
       /\ Len(store') >= Len(store)
       /\ pc \in {"fetchData", "completed", "finally", "done"} => store' = store
       /\ \A k \in 1..Len(store0') :
             store0'[k].channel \notin SeqChannels(excelData') =>
                 (k <= Len(store') /\ store'[k] = store0'[k])
      ]_vars

\* a sync of channel 7 alone on a store that held a row for channel 9 and one for 7
C10_Witness ==
    /\ uploadOK
    /\ pc = "done"
    /\ Len(store0) = 2
    /\ SeqChannels(excelData) = {7}
    /\ store # store0
    /\ \E k \in 1..2 : store0[k].channel = 9 /\ store[k] = store0[k]

====
